---- MODULE Spec2Model ----
(***************************************************************************)
(* A model of bazel_to_cmake's Workspace / Repository state                *)
(* (tools/cmake/bazel_to_cmake/workspace.py) and of the lowering of the    *)
(* local_mirror rule (tools/cmake/bazel_to_cmake/bzl_library/              *)
(* local_mirror.py).                                                       *)
(*                                                                         *)
(* Python values are modelled as follows.                                  *)
(*   - Optional[T]: None is [some |-> FALSE], a value v is                 *)
(*     [some |-> TRUE, val |-> v].                                         *)
(*   - dict: a TLA+ function; a missing key is a key outside its DOMAIN.   *)
(*   - list: a sequence; set: a set.                                       *)
(*   - str: strings whose characters matter (option values, flags,         *)
(*     project names) are sequences of one-character strings; strings      *)
(*     that are only stored and compared are TLA+ strings.                 *)
(***************************************************************************)
EXTENDS Integers, Sequences, FiniteSets, TLC

VARIABLES
  cmake_vars,           \* Workspace.cmake_vars
  bazel_to_cmake_deps,  \* Workspace.bazel_to_cmake_deps : RepositoryId -> project name
  repos,                \* Workspace.repos : RepositoryId -> Repository (a reference)
  repo_cmake_packages,  \* Workspace.repo_cmake_packages
  host_platform_name,   \* Workspace.host_platform_name
  values,               \* Workspace.values : set of pairs
  copts,                \* Workspace.copts
  cxxopts,              \* Workspace.cxxopts
  ignored_libraries,    \* Workspace.ignored_libraries
  analyzed_targets,     \* Workspace._analyzed_targets : TargetId -> TargetInfo
  repositories,         \* the Repository objects constructed so far; a reference
                        \* to a Repository is its index in this sequence
  declare_section,      \* CMakeBuilder: the texts added to FETCH_CONTENT_DECLARE_SECTION
  unique_texts,         \* CMakeBuilder: the texts already added with unique=True
  disk,                 \* the filesystem: path -> content of the file written there
  lowered,              \* number of local_mirror declarations evaluated in this pass
  call                  \* the most recent call: its operation, arguments and outcome

vars == <<cmake_vars, bazel_to_cmake_deps, repos, repo_cmake_packages,
          host_platform_name, values, copts, cxxopts, ignored_libraries,
          analyzed_targets, repositories, declare_section, unique_texts,
          disk, lowered, call>>

\* The fields of a Workspace other than the analyzed-target cache.
workspace_other == <<cmake_vars, bazel_to_cmake_deps, repos, repo_cmake_packages,
                     host_platform_name, values, copts, cxxopts,
                     ignored_libraries, repositories>>

builder_and_disk == <<declare_section, unique_texts, disk, lowered>>

----------------------------------------------------------------------------
(* Python values *)

None == [some |-> FALSE]
Some(v) == [some |-> TRUE, val |-> v]

EmptyDict == [k \in {} |-> 0]

\* dict.get(key)
DictGet(d, k) == IF k \in DOMAIN d THEN Some(d[k]) ELSE None

\* d[key] = value
DictSet(d, k, v) == [x \in (DOMAIN d) \cup {k} |-> IF x = k THEN v ELSE d[x]]

\* the dict without the keys in ks (del d[k] for k in ks)
DictDel(d, ks) == [x \in (DOMAIN d) \ ks |-> d[x]]

Range(s) == {s[i] : i \in DOMAIN s}

\* str.startswith / the prefix relation on lists
StartsWith(s, p) == /\ Len(p) <= Len(s)
                    /\ \A i \in 1..Len(p) : s[i] = p[i]

\* the concatenation of a list of lists
RECURSIVE Concat(_)
Concat(ss) == IF ss = <<>> THEN <<>> ELSE Head(ss) \o Concat(Tail(ss))

----------------------------------------------------------------------------
(* Repository (workspace.py, class Repository) *)

\* pathlib.PurePath(p).as_posix() for a POSIX path given as its split on "/":
\* empty components (repeated or trailing separators) disappear.
AsPosix(path) == [root |-> path.root,
                  parts |-> SelectSeq(path.parts, LAMBDA c : c # "")]

\* The fields Repository.__init__ sets.
Repository(bazel_repo_name, cmake_project_name, cmake_binary_dir, source_directory, top_level) ==
  [repository_id |-> bazel_repo_name,
   cmake_project_name |-> cmake_project_name,
   cmake_binary_dir |-> AsPosix(cmake_binary_dir),
   source_directory |-> AsPosix(source_directory),
   top_level |-> top_level]

\* The entries Repository.__init__ writes into workspace.repos for the new
\* object `ref`.
ReposToplevelAlways(rs, ref, repository_id, top_level) ==
  DictSet(DictSet(rs, repository_id, ref), "", ref)

ReposEitherId(rs, ref, repository_id, top_level) ==
  IF top_level THEN DictSet(rs, "", ref) ELSE DictSet(rs, repository_id, ref)

RegisterRepository(rs, ref, repository_id, top_level) ==
  LET own == DictSet(rs, repository_id, ref)
  IN IF top_level THEN DictSet(own, "", ref) ELSE own

\* Inputs of the constructions the model performs.
RepoNames == {"", "ra", "rb", "rc"}
ProjectNames == {<<"H", "f">>, <<"z", "L">>}
BinaryDirs == {[root |-> TRUE, parts |-> <<"out", "", "build", "">>]}
SourceDirs == {[root |-> TRUE, parts |-> <<"src">>]}

\* How many Repository objects one behaviour constructs.
MaxRepositories == 3

\* Repository(workspace, bazel_repo_name, cmake_project_name, cmake_binary_dir,
\*            source_directory, top_level)
NewRepository(bazel_repo_name, cmake_project_name, cmake_binary_dir, source_directory, top_level) ==
  /\ Len(repositories) < MaxRepositories
  /\ IF bazel_repo_name = ""
     THEN \* assert bazel_repo_name
          /\ call' = [op |-> "Repository", bazel_repo_name |-> bazel_repo_name,
                      top_level |-> top_level, result |-> "AssertionError"]
          /\ UNCHANGED <<repos, repositories, repo_cmake_packages>>
     ELSE LET ref == Len(repositories) + 1
          IN /\ repositories' = Append(repositories,
                   Repository(bazel_repo_name, cmake_project_name,
                              cmake_binary_dir, source_directory, top_level))
             /\ repos' = RegisterRepository(repos, ref, bazel_repo_name, top_level)
             /\ repo_cmake_packages' = repo_cmake_packages \cup {cmake_project_name}
             /\ call' = [op |-> "Repository", bazel_repo_name |-> bazel_repo_name,
                         top_level |-> top_level, result |-> "ok"]
  /\ UNCHANGED <<cmake_vars, bazel_to_cmake_deps, host_platform_name, values,
                 copts, cxxopts, ignored_libraries, analyzed_targets>>
  /\ UNCHANGED builder_and_disk

----------------------------------------------------------------------------
(* TargetId, Provider, TargetInfo and the analyzed-target cache *)

TargetId(repository_id, package_name, target_name) ==
  [repository_id |-> repository_id, package_name |-> package_name,
   target_name |-> target_name]

\* parse_absolute_target(s), for a string given as its tokens: the absolute
\* form is @repo//package:name.  Any other string does not parse.
IsAbsoluteTarget(s) ==
  /\ Len(s) = 6
  /\ s[1] = "@" /\ s[3] = "//" /\ s[5] = ":"
  /\ s[2] \notin {"", "@", "//", ":"}
  /\ s[4] \notin {"@", "//", ":"}
  /\ s[6] \notin {"", "@", "//", ":"}

parse_absolute_target(s) == TargetId(s[2], s[4], s[6])

\* str(TargetId): the canonical absolute form
TargetIdStr(t) == <<"@", t.repository_id, "//", t.package_name, ":", t.target_name>>

CMakeDepsProvider(targets) == [kind |-> "CMakeDepsProvider", names |-> targets]
CMakePackageDepsProvider(packages) ==
  [kind |-> "CMakePackageDepsProvider", names |-> packages]

\* the providers list set_bazel_target_mapping builds
MappingProvidersElif(cmake_target, cmake_package) ==
  IF cmake_target.some THEN <<CMakeDepsProvider(<<cmake_target.val>>)>>
  ELSE IF cmake_package.some
       THEN <<CMakePackageDepsProvider(<<cmake_package.val>>)>> ELSE <<>>

MappingProviders(cmake_target, cmake_package) ==
  (IF cmake_target.some THEN <<CMakeDepsProvider(<<cmake_target.val>>)>> ELSE <<>>)
  \o (IF cmake_package.some
      THEN <<CMakePackageDepsProvider(<<cmake_package.val>>)>> ELSE <<>>)

\* TargetInfo(*providers)
TargetInfo(providers) == providers

\* self._analyzed_targets[target] = TargetInfo(*providers)
SetMappingKeepFirst(analyzed, target, cmake_target, cmake_package) ==
  IF target \in DOMAIN analyzed THEN analyzed
  ELSE DictSet(analyzed, target,
               TargetInfo(MappingProviders(cmake_target, cmake_package)))

StoreTargetMapping(analyzed, target, cmake_target, cmake_package) ==
  DictSet(analyzed, target,
          TargetInfo(MappingProviders(cmake_target, cmake_package)))

\* The argument `target` of set_bazel_target_mapping is a TargetId or a str.
ArgTargetId(t) == [is_id |-> TRUE, id |-> t]
ArgTargetStr(s) == [is_id |-> FALSE, str |-> s]

\* Workspace.set_bazel_target_mapping(target, cmake_target, cmake_package)
set_bazel_target_mapping(target, cmake_target, cmake_package) ==
  /\ IF ~target.is_id /\ ~IsAbsoluteTarget(target.str)
     THEN \* parse_absolute_target raises
          /\ call' = [op |-> "set_bazel_target_mapping", target |-> target,
                      cmake_target |-> cmake_target,
                      cmake_package |-> cmake_package, result |-> "error"]
          /\ UNCHANGED analyzed_targets
     ELSE LET tid == IF target.is_id THEN target.id
                     ELSE parse_absolute_target(target.str)
          IN /\ analyzed_targets' = StoreTargetMapping(analyzed_targets, tid,
                                                       cmake_target, cmake_package)
             /\ call' = [op |-> "set_bazel_target_mapping", target |-> target,
                         cmake_target |-> cmake_target,
                         cmake_package |-> cmake_package, result |-> "ok"]
  /\ UNCHANGED workspace_other
  /\ UNCHANGED builder_and_disk

\* Workspace.ignore_library(target)
ignore_library(target) ==
  /\ ignored_libraries' = ignored_libraries \cup {target}
  /\ call' = [op |-> "ignore_library", target |-> target, result |-> "ok"]
  /\ UNCHANGED <<cmake_vars, bazel_to_cmake_deps, repos, repo_cmake_packages,
                 host_platform_name, values, copts, cxxopts, analyzed_targets,
                 repositories>>
  /\ UNCHANGED builder_and_disk

\* The cache exclude_repo_targets(repository_id) leaves.
ExcludeByPackage(analyzed, repository_id) ==
  DictDel(analyzed, {t \in DOMAIN analyzed : t.package_name = repository_id})

ExcludeRepoTargets(analyzed, repository_id) ==
  LET targets_to_delete ==
        {t \in DOMAIN analyzed : t.repository_id = repository_id}
  IN DictDel(analyzed, targets_to_delete)

\* Workspace.exclude_repo_targets(repository_id)
exclude_repo_targets(repository_id) ==
  /\ analyzed_targets' = ExcludeRepoTargets(analyzed_targets, repository_id)
  /\ call' = [op |-> "exclude_repo_targets", repository_id |-> repository_id,
              result |-> "ok"]
  /\ UNCHANGED workspace_other
  /\ UNCHANGED builder_and_disk

----------------------------------------------------------------------------
(* Option files: _parse_bazelrc, Workspace.load_bazelrc, Workspace.add_bazelrc *)

S_build == <<"b", "u", "i", "l", "d">>
S_test == <<"t", "e", "s", "t">>
S_copt == <<"-", "-", "c", "o", "p", "t">>
S_cxxopt == <<"-", "-", "c", "x", "x", "o", "p", "t">>
S_define == <<"-", "-", "d", "e", "f", "i", "n", "e">>
S_color == <<"-", "f", "d", "i", "a", "g", "n", "o", "s", "t", "i", "c", "s",
             "-", "c", "o", "l", "o", "r">>

\* the option strings of the ArgumentParser add_bazelrc builds
OptionStrings == {S_copt, S_cxxopt, S_define}

\* _parse_bazelrc on a file given as its lines, each line given as the words
\* shlex.split finds in it (no word of the model needs quoting): a line with
\* no word is blank, a line whose first word starts with "#" is a comment.
RECURSIVE ParseBazelrc(_, _)
ParseBazelrc(lines, options) ==
  IF lines = <<>> THEN options
  ELSE LET parts == Head(lines)
       IN IF parts = <<>> \/ StartsWith(parts[1], <<"#">>)
          THEN ParseBazelrc(Tail(lines), options)
          ELSE LET old == IF parts[1] \in DOMAIN options
                          THEN options[parts[1]] ELSE <<>>
               IN ParseBazelrc(Tail(lines),
                               DictSet(options, parts[1], old \o Tail(parts)))

_parse_bazelrc(lines) == ParseBazelrc(lines, EmptyDict)

\* index of the first "=" of a string, 0 when it has none
FirstEq(t) ==
  IF \E i \in 1..Len(t) : t[i] = "="
  THEN CHOOSE i \in 1..Len(t) : t[i] = "=" /\ \A j \in 1..(i - 1) : t[j] # "="
  ELSE 0

\* argparse's _parse_optional for this parser (three long options, abbreviations
\* allowed).  cls is "A" for an argument, "O" for an option (opt = <<>> when it
\* is unknown to the parser), "err" when the abbreviation is ambiguous.  No
\* token of the model is a negative number, holds a space, or is -h or the
\* beginning of --help, the option argparse adds by itself.
ParseOptional(t) ==
  LET eq == FirstEq(t)
      before == IF eq > 0 THEN SubSeq(t, 1, eq - 1) ELSE t
      explicit == IF eq > 0 THEN Some(SubSeq(t, eq + 1, Len(t))) ELSE None
      matches == IF Len(t) >= 2 /\ t[2] = "-"
                 THEN {o \in OptionStrings : StartsWith(o, before)}
                 ELSE {}
  IN IF t = <<>> \/ t[1] # "-" THEN [cls |-> "A", opt |-> <<>>, explicit |-> None]
     ELSE IF t \in OptionStrings THEN [cls |-> "O", opt |-> t, explicit |-> None]
     ELSE IF Len(t) = 1 THEN [cls |-> "A", opt |-> <<>>, explicit |-> None]
     ELSE IF eq > 0 /\ before \in OptionStrings
          THEN [cls |-> "O", opt |-> before, explicit |-> explicit]
     ELSE IF Cardinality(matches) > 1
          THEN [cls |-> "err", opt |-> <<>>, explicit |-> None]
     ELSE IF Cardinality(matches) = 1
          THEN [cls |-> "O", opt |-> CHOOSE o \in matches : TRUE,
                explicit |-> explicit]
     ELSE [cls |-> "O", opt |-> <<>>, explicit |-> None]

\* index of the first "--" token, Len + 1 when there is none
FirstDashDash(tokens) ==
  IF \E i \in 1..Len(tokens) : tokens[i] = <<"-", "-">>
  THEN CHOOSE i \in 1..Len(tokens) :
         tokens[i] = <<"-", "-">> /\ \A j \in 1..(i - 1) : tokens[j] # <<"-", "-">>
  ELSE Len(tokens) + 1

\* the pattern letter argparse gives token i: everything after "--" is an argument
TokenClass(tokens, i) ==
  LET dd == FirstDashDash(tokens)
  IN IF i > Len(tokens) THEN "end"
     ELSE IF i > dd THEN "A"
     ELSE IF i = dd THEN "-"
     ELSE ParseOptional(tokens[i]).cls

\* action="append"
AppendArg(args, opt, value) ==
  IF opt = S_copt THEN [args EXCEPT !.copt = Append(@, value)]
  ELSE IF opt = S_cxxopt THEN [args EXCEPT !.cxxopt = Append(@, value)]
  ELSE [args EXCEPT !.define = Append(@, value)]

\* The loop of parse_known_args from token i on; what no option consumes goes
\* to the extras, which add_bazelrc drops.  An option without "=value" takes
\* the next token, which must be an argument (pattern A).
RECURSIVE ConsumeArgs(_, _, _)
ConsumeArgs(tokens, i, args) ==
  IF i > Len(tokens) \/ ~args.ok THEN args
  ELSE IF TokenClass(tokens, i) # "O" THEN ConsumeArgs(tokens, i + 1, args)
  ELSE LET po == ParseOptional(tokens[i])
       IN IF po.opt = <<>> THEN ConsumeArgs(tokens, i + 1, args)
          ELSE IF po.explicit.some
               THEN ConsumeArgs(tokens, i + 1,
                                AppendArg(args, po.opt, po.explicit.val))
          ELSE IF TokenClass(tokens, i + 1) = "A"
               THEN ConsumeArgs(tokens, i + 2,
                                AppendArg(args, po.opt, tokens[i + 1]))
          ELSE [args EXCEPT !.ok = FALSE]

\* ap.parse_known_args(build_options): ok = FALSE when argparse exits with an
\* error (an option without its argument, an ambiguous abbreviation).
ParseKnownArgs(tokens) ==
  LET start == [ok |-> TRUE, copt |-> <<>>, cxxopt |-> <<>>, define |-> <<>>]
  IN IF \E i \in 1..Len(tokens) : TokenClass(tokens, i) = "err"
     THEN [start EXCEPT !.ok = FALSE]
     ELSE ConsumeArgs(tokens, 1, start)

\* re.match("^(?:[-/]std|-fdiagnostics-color=|[-/]D)", opt) is not None
OnlyDashStd(opt) ==
  \/ StartsWith(opt, <<"-", "s", "t", "d">>)
  \/ StartsWith(opt, S_color \o <<"=">>)
  \/ StartsWith(opt, <<"-", "D">>)

FilteredOut(opt) ==
  \/ /\ Len(opt) >= 4
     /\ opt[1] \in {"-", "/"}
     /\ SubSeq(opt, 2, 4) = <<"s", "t", "d">>
  \/ StartsWith(opt, S_color \o <<"=">>)
  \/ /\ Len(opt) >= 2
     /\ opt[1] \in {"-", "/"}
     /\ opt[2] = "D"

filter_copts(opts) == SelectSeq(opts, LAMBDA opt : ~FilteredOut(opt))

\* the build_options list add_bazelrc collects
BuildOptions(options, platform) ==
  (IF S_build \in DOMAIN options THEN options[S_build] ELSE <<>>)
  \o (IF platform.some /\ (S_build \o <<":">> \o platform.val) \in DOMAIN options
      THEN options[S_build \o <<":">> \o platform.val]
      ELSE <<>>)

\* self.values.update(("define", x) for x in args.define)
DefineValues(args) == {<<"define", args.define[i]>> : i \in DOMAIN args.define}

\* How long copts and cxxopts may be when one more option file is loaded.
MaxOpts == 2

\* Workspace.add_bazelrc(options)
add_bazelrc(options) ==
  LET args == ParseKnownArgs(BuildOptions(options, host_platform_name))
  IN IF ~args.ok
     THEN UNCHANGED <<values, copts, cxxopts>>
     ELSE /\ values' = values \cup DefineValues(args)
          /\ copts' = copts \o filter_copts(args.copt)
          /\ cxxopts' = cxxopts \o filter_copts(args.cxxopt)

\* Workspace.load_bazelrc(path), for the file at `path` given as its lines
load_bazelrc(lines) ==
  /\ Len(copts) <= MaxOpts
  /\ Len(cxxopts) <= MaxOpts
  /\ add_bazelrc(_parse_bazelrc(lines))
  /\ call' = [op |-> "load_bazelrc", lines |-> lines,
              result |-> IF ParseKnownArgs(BuildOptions(_parse_bazelrc(lines),
                                                        host_platform_name)).ok
                         THEN "ok" ELSE "SystemExit"]
  /\ UNCHANGED <<cmake_vars, bazel_to_cmake_deps, repos, repo_cmake_packages,
                 host_platform_name, ignored_libraries, analyzed_targets,
                 repositories>>
  /\ UNCHANGED builder_and_disk

----------------------------------------------------------------------------
(* Workspace.__init__ *)

\* _PLATFORM_NAME_TO_BAZEL_PLATFORM.get(system)
PlatformNameToBazelPlatform(system) ==
  CASE system = "Windows" -> Some(<<"w", "i", "n", "d", "o", "w", "s">>)
    [] system = "FreeBSD" -> Some(<<"f", "r", "e", "e", "b", "s", "d">>)
    [] system = "OpenBSD" -> Some(<<"o", "p", "e", "n", "b", "s", "d">>)
    [] system = "Darwin" -> Some(<<"m", "a", "c", "o", "s">>)
    [] system = "Linux" -> Some(<<"l", "i", "n", "u", "x">>)
    [] OTHER -> None

\* the values platform.system() is modelled to return
PlatformSystems == {"Windows", "FreeBSD", "OpenBSD", "Darwin", "Linux", "Java"}

CMakeVars == {[CMAKE_FIND_PACKAGE_REDIRECTS_DIR |-> "redirects"]}

\* The state Workspace(cmake_vars) constructs, on a host whose
\* platform.system() is `system`, with an empty builder and filesystem.
WorkspaceInit(vs, system) ==
  /\ cmake_vars = vs
  /\ bazel_to_cmake_deps = EmptyDict
  /\ repos = EmptyDict
  /\ repo_cmake_packages = {}
  /\ host_platform_name = PlatformNameToBazelPlatform(system)
  /\ values = {}
  /\ copts = <<>>
  /\ cxxopts = <<>>
  /\ ignored_libraries = {}
  /\ analyzed_targets = EmptyDict
  /\ repositories = <<>>

BuilderInit ==
  /\ declare_section = <<>>
  /\ unique_texts = {}
  /\ disk = [files |-> EmptyDict, dirs |-> {}]
  /\ lowered = 0

NoCall == [op |-> "none", result |-> "ok"]

----------------------------------------------------------------------------
(* Inputs of the Workspace operations *)

TargetIds == {TargetId("ra", "pkg", "x"), TargetId("ra", "", "y"),
              TargetId("rb", "ra", "x")}
TargetStrs == {TargetIdStr(TargetId("rb", "ra", "x")), <<"//", "pkg", ":", "x">>,
               <<":", "x">>}
TargetArgs == {ArgTargetId(t) : t \in TargetIds} \cup {ArgTargetStr(s) : s \in TargetStrs}
CMakeTargets == {None, Some("Hf::x")}
CMakePackages == {None, Some("Hf")}
ExcludeIds == {"ra", "rb", "rc"}
IgnoredTargets == {TargetId("ra", "pkg", "x"), TargetId("rb", "ra", "x")}

Tok(option, value) == option \o <<"=">> \o value
Group(platform) == S_build \o <<":">> \o platform
V_O2 == <<"-", "O", "2">>
V_std == <<"-", "s", "t", "d", "=", "1", "7">>
V_slashstd == <<"/", "s", "t", "d", ":", "1", "7">>
V_D == <<"-", "D", "F">>
V_slashD == <<"/", "D", "F">>
V_W == <<"-", "W">>
V_st == <<"-", "s", "t">>
V_kv == <<"k", "=", "v">>

\* # build
\* build --copt=-O2 --cxxopt=-std=17 --define=k=v
\*
\* build:linux --copt=-DF --cxxopt=-W
\* build:windows --copt=/std:17 --cxxopt=/DF --copt=-O2
RcFileA ==
  << << <<"#">>, S_build >>,
     << S_build, Tok(S_copt, V_O2), Tok(S_cxxopt, V_std), Tok(S_define, V_kv) >>,
     << >>,
     << Group(<<"l", "i", "n", "u", "x">>), Tok(S_copt, V_D), Tok(S_cxxopt, V_W) >>,
     << Group(<<"w", "i", "n", "d", "o", "w", "s">>), Tok(S_copt, V_slashstd),
        Tok(S_cxxopt, V_slashD), Tok(S_copt, V_O2) >> >>

\* build --define k=v --unk --cxxopt=-fdiagnostics-color=a
\* build --cop=-st -c opt
\* test --copt=-W
\* build:macos --cxxopt=-fdiagnostics-color --copt W -- --copt=-O2
RcFileB ==
  << << S_build, S_define, V_kv, <<"-", "-", "u", "n", "k">>,
        Tok(S_cxxopt, S_color \o <<"=", "a">>) >>,
     << S_build, Tok(<<"-", "-", "c", "o", "p">>, V_st), <<"-", "c">>,
        <<"o", "p", "t">> >>,
     << S_test, Tok(S_copt, V_W) >>,
     << Group(<<"m", "a", "c", "o", "s">>), Tok(S_cxxopt, S_color), S_copt,
        <<"W">>, <<"-", "-">>, Tok(S_copt, V_O2) >> >>

\* build --copt=-W
\* build --copt -O2
RcFileC == << << S_build, Tok(S_copt, V_W) >>, << S_build, S_copt, V_O2 >> >>

\* build --define=k=w
\* build:freebsd --c=x
RcFileD ==
  << << S_build, Tok(S_define, <<"k", "=", "w">>) >>,
     << Group(<<"f", "r", "e", "e", "b", "s", "d">>), Tok(<<"-", "-", "c">>, <<"x">>) >> >>

BazelrcFiles == {RcFileA, RcFileB, RcFileC, RcFileD}

----------------------------------------------------------------------------
(* Specifications of the Workspace operations *)

\* Repository constructions on a fresh Workspace.
InitRepo ==
  /\ \E vs \in CMakeVars : WorkspaceInit(vs, "Linux")
  /\ BuilderInit
  /\ call = NoCall

NextRepo ==
  \E n \in RepoNames, p \in ProjectNames, b \in BinaryDirs, s \in SourceDirs,
     t \in BOOLEAN : NewRepository(n, p, b, s, t)

SpecRepo == InitRepo /\ [][NextRepo]_vars

\* The Workspace of a top-level invocation on a host `system`: constructed,
\* option file RcFileA loaded, top-level Repository "ra" created.
TopLevelWorkspace(vs, system) ==
  LET platform == PlatformNameToBazelPlatform(system)
      args == ParseKnownArgs(BuildOptions(_parse_bazelrc(RcFileA), platform))
  IN /\ cmake_vars = vs
     /\ bazel_to_cmake_deps = EmptyDict
     /\ repositories =
          << Repository("ra", <<"H", "f">>,
                        CHOOSE b \in BinaryDirs : TRUE,
                        CHOOSE d \in SourceDirs : TRUE, TRUE) >>
     /\ repos = RegisterRepository(EmptyDict, 1, "ra", TRUE)
     /\ repo_cmake_packages = {<<"H", "f">>}
     /\ host_platform_name = platform
     /\ values = DefineValues(args)
     /\ copts = filter_copts(args.copt)
     /\ cxxopts = filter_copts(args.cxxopt)
     /\ ignored_libraries = {}
     /\ analyzed_targets = EmptyDict

\* Target mappings, ignored libraries and purges on the Workspace of a
\* top-level invocation.
InitTargets ==
  /\ \E vs \in CMakeVars : TopLevelWorkspace(vs, "Linux")
  /\ BuilderInit
  /\ call = NoCall

SetMappingStep ==
  \E t \in TargetArgs, ct \in CMakeTargets, cp \in CMakePackages :
    set_bazel_target_mapping(t, ct, cp)

IgnoreStep == \E t \in IgnoredTargets : ignore_library(t)

ExcludeStep == \E r \in ExcludeIds : exclude_repo_targets(r)

NextTargets == SetMappingStep \/ IgnoreStep \/ ExcludeStep

SpecTargets == InitTargets /\ [][NextTargets]_vars

\* Option files loaded into a fresh Workspace on any host.
InitBazelrc ==
  /\ \E vs \in CMakeVars, system \in PlatformSystems : WorkspaceInit(vs, system)
  /\ BuilderInit
  /\ call = NoCall

NextBazelrc == \E lines \in BazelrcFiles : load_bazelrc(lines)

SpecBazelrc == InitBazelrc /\ [][NextBazelrc]_vars

----------------------------------------------------------------------------
(* Claims about Repository construction *)

\* the references of the Repository objects constructed with top_level=True
TopLevelRefs == {i \in 1..Len(repositories) : repositories[i].top_level}

\* the most recently constructed of them
LatestTopLevel == CHOOSE i \in TopLevelRefs : \A j \in TopLevelRefs : j <= i

\* C1, as claimed: once a Repository has been constructed, exactly one
\* Repository has top_level=true, and it is the value of workspace.repos under
\* its own repository id and under the empty repository id.
C1_ExactlyOneTopLevel ==
  Len(repositories) >= 1 =>
    /\ Cardinality(TopLevelRefs) = 1
    /\ \A i \in TopLevelRefs :
         /\ DictGet(repos, repositories[i].repository_id) = Some(i)
         /\ DictGet(repos, "") = Some(i)

\* C1, amended: workspace.repos has an entry under the empty id exactly when
\* some Repository was constructed with top_level=true; that entry is the most
\* recently constructed top-level Repository, which is also the value under
\* its own id unless a later construction used the same id.  (How many
\* Repositories have top_level=true is up to the callers.)
C1_EmptyIdIsLatestTopLevel ==
  /\ ("" \in DOMAIN repos) <=> (TopLevelRefs # {})
  /\ TopLevelRefs # {} =>
       /\ repos[""] = LatestTopLevel
       /\ repositories[repos[""]].top_level
       /\ (\A j \in 1..Len(repositories) :
             j > LatestTopLevel =>
               repositories[j].repository_id
                 # repositories[LatestTopLevel].repository_id)
          => repos[repositories[LatestTopLevel].repository_id] = LatestTopLevel
  /\ \A id \in DOMAIN repos : repos[id] \in 1..Len(repositories)

\* C1 witness: one top-level Repository and two dependencies, the top-level
\* one registered under its own id and under the empty id.
C1_Witness ==
  /\ Len(repositories) = 3
  /\ TopLevelRefs = {1}
  /\ repos[""] = 1
  /\ repos[repositories[1].repository_id] = 1
  /\ Cardinality(DOMAIN repos) = 3

\* C15: a Repository construction registers the new object in
\* workspace.repos under its own id and adds its project name to the known
\* project names; it sets the empty-id entry iff top_level is true, and with
\* top_level=false the empty-id entry and every entry of another id are
\* unchanged.
C15_RegistersUnderOwnId ==
  [][(call'.op = "Repository" /\ call'.result = "ok") =>
       LET ref == Len(repositories')
           id == call'.bazel_repo_name
       IN /\ ref = Len(repositories) + 1
          /\ repositories'[ref].repository_id = id
          /\ DictGet(repos', id) = Some(ref)
          /\ repo_cmake_packages' =
               repo_cmake_packages \cup {repositories'[ref].cmake_project_name}
          /\ IF call'.top_level
             THEN DictGet(repos', "") = Some(ref)
             ELSE DictGet(repos', "") = DictGet(repos, "")
          /\ DOMAIN repos' \subseteq DOMAIN repos \cup {id, ""}
          /\ \A other \in DOMAIN repos \ {id, ""} :
               DictGet(repos', other) = Some(repos[other])]_vars

\* C15 witness: after the top-level Repository ra and a dependency rb, a
\* dependency rc of another project was constructed with top_level=false; the
\* empty id still names ra, and rb keeps its entry.
C15_Witness ==
  /\ call.op = "Repository" /\ call.result = "ok" /\ ~call.top_level
  /\ call.bazel_repo_name = "rc"
  /\ repos = ("" :> 1 @@ "ra" :> 1 @@ "rb" :> 2 @@ "rc" :> 3)
  /\ repo_cmake_packages = {<<"H", "f">>, <<"z", "L">>}

----------------------------------------------------------------------------
(* Claims about the analyzed-target cache *)

\* the TargetId a set_bazel_target_mapping call stores under
CallTarget(c) == IF c.target.is_id THEN c.target.id
                 ELSE parse_absolute_target(c.target.str)

StoredBy(c) ==
  c.op = "set_bazel_target_mapping" /\ c.result = "ok"

\* C2: exclude_repo_targets(r) removes from the cache exactly the TargetIds
\* whose repository id is r; every other entry keeps its TargetInfo and no
\* other Workspace field changes.
C2_ExcludeRemovesExactlyRepo ==
  [][call'.op = "exclude_repo_targets" =>
       /\ DOMAIN analyzed_targets' =
            {t \in DOMAIN analyzed_targets :
               t.repository_id # call'.repository_id}
       /\ \A t \in DOMAIN analyzed_targets' :
            analyzed_targets'[t] = analyzed_targets[t]
       /\ UNCHANGED workspace_other]_vars

\* C2 witness: after exclude_repo_targets("ra") the cache holds a target of
\* repository "rb" (whose package is named "ra") and none of "ra".
C2_Witness ==
  /\ call.op = "exclude_repo_targets"
  /\ call.repository_id = "ra"
  /\ TargetId("rb", "ra", "x") \in DOMAIN analyzed_targets
  /\ analyzed_targets[TargetId("rb", "ra", "x")] # <<>>
  /\ \A t \in DOMAIN analyzed_targets : t.repository_id # "ra"
  /\ ignored_libraries # {}

\* C3, as claimed: a TargetInfo in the cache is not set again or replaced
\* until exclude_repo_targets for its repository has removed it.
C3_AnalyzedAtMostOnce ==
  [][\A t \in DOMAIN analyzed_targets :
       /\ t \in DOMAIN analyzed_targets' =>
            analyzed_targets'[t] = analyzed_targets[t]
       /\ ~(StoredBy(call') /\ CallTarget(call') = t)]_vars

\* C3, amended: set_bazel_target_mapping always stores the TargetInfo built
\* from its arguments under its target, replacing one already there; a cached
\* TargetInfo changes only by such a call for the same TargetId and leaves the
\* cache only by exclude_repo_targets for its repository.
C3_ReplacedOnlyBySetMapping ==
  [][/\ \A t \in DOMAIN analyzed_targets :
          /\ t \notin DOMAIN analyzed_targets' =>
               /\ call'.op = "exclude_repo_targets"
               /\ call'.repository_id = t.repository_id
          /\ (t \in DOMAIN analyzed_targets'
              /\ analyzed_targets'[t] # analyzed_targets[t]) =>
               /\ StoredBy(call')
               /\ CallTarget(call') = t
     /\ StoredBy(call') =>
          /\ CallTarget(call') \in DOMAIN analyzed_targets'
          /\ analyzed_targets'[CallTarget(call')] =
               MappingProviders(call'.cmake_target, call'.cmake_package)]_vars

\* C3 witness: a mapping stored for a target, given as a string, whose entry
\* holds both providers, while another repository's target is cached too.
C3_Witness ==
  /\ StoredBy(call)
  /\ ~call.target.is_id
  /\ call.cmake_target.some /\ call.cmake_package.some
  /\ Len(analyzed_targets[CallTarget(call)]) = 2
  /\ \E t \in DOMAIN analyzed_targets :
       t.repository_id # CallTarget(call).repository_id

\* where a TargetInfo holds a Provider of a kind
ProvidersOfKind(info, kind) == {i \in DOMAIN info : info[i].kind = kind}

\* C13: a mapping call whose target is a string that does not parse to an
\* absolute TargetId fails and leaves the cache unchanged; any other call
\* succeeds, and the entry of its target then holds exactly one
\* dependency-name Provider iff a generated target was given and exactly one
\* package-name Provider iff a generated package was given, in that order.
C13_MappingFailsOrStores ==
  [][call'.op = "set_bazel_target_mapping" =>
       IF ~call'.target.is_id /\ ~IsAbsoluteTarget(call'.target.str)
       THEN /\ call'.result = "error"
            /\ analyzed_targets' = analyzed_targets
       ELSE /\ call'.result = "ok"
            /\ CallTarget(call') \in DOMAIN analyzed_targets'
            /\ LET info == analyzed_targets'[CallTarget(call')]
                   deps == ProvidersOfKind(info, "CMakeDepsProvider")
                   pkgs == ProvidersOfKind(info, "CMakePackageDepsProvider")
               IN /\ Cardinality(deps) = IF call'.cmake_target.some THEN 1 ELSE 0
                  /\ Cardinality(pkgs) = IF call'.cmake_package.some THEN 1 ELSE 0
                  /\ Len(info) = Cardinality(deps) + Cardinality(pkgs)
                  /\ \A i \in deps : info[i].names = <<call'.cmake_target.val>>
                  /\ \A j \in pkgs : info[j].names = <<call'.cmake_package.val>>
                  /\ \A i \in deps : \A j \in pkgs : i < j]_vars

\* C13 witness: with an entry in the cache that holds a package-name Provider
\* only, a call for the string //pkg:x, which names no repository, has failed.
C13_Witness ==
  /\ call.op = "set_bazel_target_mapping" /\ call.result = "error"
  /\ call.target = ArgTargetStr(<<"//", "pkg", ":", "x">>)
  /\ call.cmake_target.some
  /\ \E t \in DOMAIN analyzed_targets :
       analyzed_targets[t] = <<CMakePackageDepsProvider(<<"Hf">>)>>

----------------------------------------------------------------------------
(* Claims about option files *)

ForbiddenPrefixes ==
  { <<"-", "s", "t", "d">>, <<"/", "s", "t", "d">>, S_color \o <<"=">>,
    <<"-", "D">>, <<"/", "D">> }

NoForbiddenOption(opts) ==
  \A i \in DOMAIN opts : \A p \in ForbiddenPrefixes : ~StartsWith(opts[i], p)

TokensOf(lines, group) ==
  Concat([i \in DOMAIN lines |->
            IF lines[i] # <<>> /\ lines[i][1] = group
            THEN Tail(lines[i]) ELSE <<>>])

\* the tokens of the "build" group and of the host platform's group
HostTokens(lines) ==
  TokensOf(lines, S_build)
  \o (IF host_platform_name.some
      THEN TokensOf(lines, S_build \o <<":">> \o host_platform_name.val)
      ELSE <<>>)

\* a token that is one of the three flags, alone or with "=value"
KnownFlag(t) ==
  \E o \in OptionStrings : t = o \/ StartsWith(t, o \o <<"=">>)

\* a token that is a flag, and none of the three
UnknownFlag(t) ==
  /\ Len(t) >= 2 /\ t[1] = "-"
  /\ t # <<"-", "-">>
  /\ ~KnownFlag(t)

\* an unknown flag whose name is the beginning of the name of one of the three
AbbreviatedFlag(t) ==
  /\ UnknownFlag(t)
  /\ Len(t) >= 3 /\ t[2] = "-"
  /\ \E o \in OptionStrings :
       StartsWith(o, IF FirstEq(t) > 0 THEN SubSeq(t, 1, FirstEq(t) - 1) ELSE t)

\* a load adds the parsed values: each --define value as a pair of the
\* define set, the kept --copt and --cxxopt values at the end of the lists
LoadAdds(args) ==
  /\ values' = values \cup {<<"define", args.define[i]>> : i \in DOMAIN args.define}
  /\ copts' = copts \o SelectSeq(args.copt, LAMBDA o : NoForbiddenOption(<<o>>))
  /\ cxxopts' = cxxopts \o SelectSeq(args.cxxopt, LAMBDA o : NoForbiddenOption(<<o>>))

\* C16, as claimed: a load consumes the tokens of the "build" group and of the
\* host platform's group only (of "build" only when the host has no platform
\* name), ignores the unknown flags among them without error, and adds each
\* --define value to the define set as a pair.
C16_UnknownFlagsIgnored ==
  [][call'.op = "load_bazelrc" =>
       LET known == SelectSeq(HostTokens(call'.lines), LAMBDA t : ~UnknownFlag(t))
           args == ParseKnownArgs(known)
       IN args.ok => (call'.result = "ok" /\ LoadAdds(args))]_vars

\* C16, for option files whose unknown flags abbreviate none of the three
\* flags: the same.  A flag such as --cop=x is taken for the flag it
\* abbreviates, and an ambiguous one such as --c=x ends the parse with an error.
C16_UnabbreviatedFlagsIgnored ==
  [][call'.op = "load_bazelrc" =>
       LET tokens == HostTokens(call'.lines)
           known == SelectSeq(tokens, LAMBDA t : ~UnknownFlag(t))
           args == ParseKnownArgs(known)
       IN ((\A i \in DOMAIN tokens : ~AbbreviatedFlag(tokens[i])) /\ args.ok)
            => (call'.result = "ok" /\ LoadAdds(args))]_vars

\* C16 witness: on a Linux host, an option file whose "build" group holds the
\* unknown flag --cop=-st and whose "test" and "build:macos" groups hold --copt
\* values was loaded without error; -st is in copts.
C16_Witness ==
  /\ call.op = "load_bazelrc" /\ call.lines = RcFileB /\ call.result = "ok"
  /\ host_platform_name = Some(<<"l", "i", "n", "u", "x">>)
  /\ copts = <<V_st>>
  /\ values = {<<"define", V_kv>>}

----------------------------------------------------------------------------
(* The generated script and the filesystem                                  *)
(*                                                                          *)
(* A text (a str written to a file or added to the script) is the sequence  *)
(* of the fragments it is the concatenation of; a fragment is a record      *)
(* [k |-> its kind, ...].  A path is a record [area, base, project, file].  *)

\* quote_string(s)
quote_string(s) == [quoted |-> s]

\* a characterwise case map over the letters the project names use
UpperLetters == <<"F", "H", "L", "Z">>
LowerLetters == <<"f", "h", "l", "z">>
LowerChar(c) == IF \E i \in 1..4 : UpperLetters[i] = c
                THEN LowerLetters[CHOOSE i \in 1..4 : UpperLetters[i] = c] ELSE c
UpperChar(c) == IF \E i \in 1..4 : LowerLetters[i] = c
                THEN UpperLetters[CHOOSE i \in 1..4 : LowerLetters[i] = c] ELSE c
\* str.lower(), str.upper()
Lower(s) == [i \in DOMAIN s |-> LowerChar(s[i])]
Upper(s) == [i \in DOMAIN s |-> UpperChar(s[i])]

\* os.path.join(state.repo.cmake_binary_dir, "local_mirror", cmake_name)
LocalMirrorDir(repo, cmake_name) ==
  [area |-> "local_mirror", base |-> repo.cmake_binary_dir,
   project |-> cmake_name, file |-> ""]

\* os.path.join(local_mirror_dir, file), for a relative path `file`
FilePath(local_mirror_dir, file) == [local_mirror_dir EXCEPT !.file = file]

\* os.path.join(cmake_find_package_redirects_dir, f"{cmake_name.lower()}-config.cmake")
ConfigPath(redirects_dir, cmake_name) ==
  [area |-> "redirects", base |-> [root |-> FALSE, parts |-> <<redirects_dir>>],
   project |-> Lower(cmake_name), file |-> "-config.cmake"]

\* the directory a path lies in
Parent(path) == [path EXCEPT !.file = ""]

\* os.makedirs(dir, exist_ok=True)
MakeDirs(d, dir) == [d EXCEPT !.dirs = @ \cup {dir}]

\* pathlib.Path(path).write_text(text)
WriteText(d, path, text) == [d EXCEPT !.files = DictSet(@, path, text)]

\* CMakeBuilder.addtext(text, section=FETCH_CONTENT_DECLARE_SECTION, unique=...)
\* on the builder b = [texts |-> the section, uniq |-> the unique texts seen]:
\* the section is append-only; a text marked unique is added once.
AddText(b, text, unique) ==
  IF unique /\ text \in b.uniq THEN b
  ELSE [texts |-> Append(b.texts, text),
        uniq |-> IF unique THEN b.uniq \cup {text} ELSE b.uniq]

\* the texts of the script
EnableLanguage(lang) == << [k |-> "enable_language", lang |-> lang] >>
FileDownload(url, file_path) ==
  << [k |-> "file_download", url |-> quote_string(url),
      path |-> quote_string(file_path)] >>
ExpectedHash(sha256) == << [k |-> "expected_hash", sha256 |-> sha256] >>
Loading(repository_name) == << [k |-> "loading", name |-> repository_name] >>
AddSubdirectory(dir) ==
  << [k |-> "add_subdirectory", dir |-> quote_string(dir),
      exclude_from_all |-> TRUE] >>
Literal(s) == << [k |-> "literal", s |-> s] >>

----------------------------------------------------------------------------
(* _local_mirror_impl (bzl_library/local_mirror.py) *)

\* `not x` for an optional str held as a TLA+ string, and for an optional
\* list or str held as a sequence
Falsy(x) == ~x.some \/ x.val = ""
FalsySeq(x) == ~x.some \/ x.val = <<>>

\* kwargs.get(key, {}).get(file) for the per-file dicts
FileGet(d, file) == IF d.some THEN DictGet(d.val, file) ELSE None

\* update_target_mapping(state.repo, new_repository_id.get_package_id(""), kwargs):
\* records the mapping of the rule's own target through
\* Workspace.set_bazel_target_mapping.
RuleTarget(name) == TargetId(name, "", name)
update_target_mapping(analyzed, kw) ==
  StoreTargetMapping(analyzed, RuleTarget(kw.name), Some(kw.cmake_name.val),
                     Some(kw.cmake_name.val))

\* for lang in kwargs.pop("cmake_languages", []): builder.addtext(..., unique=True)
RECURSIVE EmitLanguagesNotUnique(_, _)
EmitLanguagesNotUnique(b, langs) ==
  IF langs = <<>> THEN b
  ELSE EmitLanguagesNotUnique(AddText(b, EnableLanguage(Head(langs)), FALSE),
                              Tail(langs))

RECURSIVE EmitLanguages(_, _)
EmitLanguages(b, langs) ==
  IF langs = <<>> THEN b
  ELSE EmitLanguages(AddText(b, EnableLanguage(Head(langs)), TRUE), Tail(langs))

\* One iteration of `for file in files`, on acc = [disk, out, raised]:
\* literal content is written; otherwise a first URL is turned into a download
\* directive, which needs a digest.
MirrorFileUrlFirst(acc, local_mirror_dir, kw, file) ==
  LET file_path == FilePath(local_mirror_dir, file)
      content == FileGet(kw.file_content, file)
      urls == FileGet(kw.file_url, file)
      sha256 == FileGet(kw.file_sha256, file)
  IN IF ~FalsySeq(urls)
     THEN IF Falsy(sha256)
          THEN [acc EXCEPT !.out = @ \o FileDownload(urls.val[1], file_path),
                           !.raised = TRUE]
          ELSE [acc EXCEPT !.out = @ \o FileDownload(urls.val[1], file_path)
                                     \o ExpectedHash(sha256.val)]
     ELSE IF content.some
          THEN [acc EXCEPT
                  !.disk = WriteText(MakeDirs(@, Parent(file_path)), file_path,
                                     Literal(content.val))]
          ELSE acc

MirrorFileNoDigestCheck(acc, local_mirror_dir, kw, file) ==
  LET file_path == FilePath(local_mirror_dir, file)
      content == FileGet(kw.file_content, file)
      urls == FileGet(kw.file_url, file)
      sha256 == FileGet(kw.file_sha256, file)
  IN IF content.some
     THEN [acc EXCEPT
             !.disk = WriteText(MakeDirs(@, Parent(file_path)), file_path,
                                Literal(content.val))]
     ELSE IF FalsySeq(urls) THEN acc
     ELSE IF Falsy(sha256)
          THEN [acc EXCEPT !.out = @ \o FileDownload(urls.val[1], file_path)]
          ELSE [acc EXCEPT !.out = @ \o FileDownload(urls.val[1], file_path)
                                     \o ExpectedHash(sha256.val)]

MirrorFile(acc, local_mirror_dir, kw, file) ==
  LET file_path == FilePath(local_mirror_dir, file)
      content == FileGet(kw.file_content, file)
      urls == FileGet(kw.file_url, file)
      sha256 == FileGet(kw.file_sha256, file)
  IN IF content.some
     THEN [acc EXCEPT
             !.disk = WriteText(MakeDirs(@, Parent(file_path)), file_path,
                                Literal(content.val))]
     ELSE IF FalsySeq(urls) THEN acc
     ELSE IF Falsy(sha256)
          THEN [acc EXCEPT !.out = @ \o FileDownload(urls.val[1], file_path),
                           !.raised = TRUE]
          ELSE [acc EXCEPT !.out = @ \o FileDownload(urls.val[1], file_path)
                                     \o ExpectedHash(sha256.val)]

\* for file in files: ...   (the loop ends at the first raise)
RECURSIVE MirrorFiles(_, _, _, _)
MirrorFiles(acc, local_mirror_dir, kw, files) ==
  IF files = <<>> \/ acc.raised THEN acc
  ELSE MirrorFiles(MirrorFile(acc, local_mirror_dir, kw, Head(files)),
                   local_mirror_dir, kw, Tail(files))

\* the three builder.addtext calls after the loop
DeclareMirrorSubdirectoryFirst(b, name, out, local_mirror_dir) ==
  AddText(AddText(AddText(b, Loading(name), FALSE),
                  AddSubdirectory(local_mirror_dir), FALSE),
          out, FALSE)

DeclareMirror(b, name, out, local_mirror_dir) ==
  AddText(AddText(AddText(b, Loading(name), FALSE), out, FALSE),
          AddSubdirectory(local_mirror_dir), FALSE)

\* write_bazel_to_cmake_cmakelists(_new_cmakelists=out, **kwargs): the
\* rule-translation output for this rule's attributes
write_bazel_to_cmake_cmakelists(kw) == << [k |-> "bazel_to_cmake", name |-> kw.name] >>

\* the text of the nested CMakeLists.txt
NestedCMakeLists(kw) ==
  << [k |-> "message_indent", project |-> kw.cmake_name.val] >>
  \o (IF Falsy(kw.cmakelists_prefix) THEN <<>>
      ELSE Literal(kw.cmakelists_prefix.val))
  \o write_bazel_to_cmake_cmakelists(kw)
  \o (IF Falsy(kw.cmakelists_suffix) THEN <<>>
      ELSE Literal(kw.cmakelists_suffix.val))

\* the text of <cmake_name.lower()>-config.cmake
RedirectConfigLowerOnly(cmake_name, local_mirror_dir) ==
  << [k |-> "set_dir", var |-> Lower(cmake_name), suffix |-> "_ROOT_DIR",
      dir |-> local_mirror_dir],
     [k |-> "set", var |-> Lower(cmake_name), suffix |-> "_FOUND", value |-> "ON"],
     [k |-> "set", var |-> Lower(cmake_name), suffix |-> "_FOUND", value |-> "ON"] >>

RedirectConfig(cmake_name, local_mirror_dir) ==
  << [k |-> "set_dir", var |-> Lower(cmake_name), suffix |-> "_ROOT_DIR",
      dir |-> local_mirror_dir],
     [k |-> "set", var |-> Lower(cmake_name), suffix |-> "_FOUND", value |-> "ON"],
     [k |-> "set", var |-> Upper(cmake_name), suffix |-> "_FOUND", value |-> "ON"] >>

\* the test that raises "CMake options not supported by local_mirror"
UnsupportedOptionsAliasesOnly(kw) == kw.cmake_package_aliases.some

UnsupportedOptions(kw) ==
  \/ kw.cmake_package_redirect_extra.some
  \/ kw.cmake_package_aliases.some
  \/ kw.cmake_package_redirect_libraries.some

\* the end of _local_mirror_impl, from the nested CMakeLists.txt on
FinishMirrorChecksFirst(st, kw, vs, local_mirror_dir) ==
  LET cmaketxt_path == FilePath(local_mirror_dir, "CMakeLists.txt")
      disk1 == WriteText(st.disk, cmaketxt_path, NestedCMakeLists(kw))
  IN IF "CMAKE_FIND_PACKAGE_REDIRECTS_DIR" \notin DOMAIN vs
     THEN [st EXCEPT !.result = "KeyError"]
     ELSE IF UnsupportedOptions(kw)
     THEN [st EXCEPT !.result = "options_not_supported"]
     ELSE LET config_path == ConfigPath(vs["CMAKE_FIND_PACKAGE_REDIRECTS_DIR"],
                                        kw.cmake_name.val)
          IN [st EXCEPT
                !.disk = WriteText(disk1, config_path,
                                   RedirectConfig(kw.cmake_name.val,
                                                  local_mirror_dir)),
                !.result = "ok"]

FinishMirror(st, kw, vs, local_mirror_dir) ==
  LET cmaketxt_path == FilePath(local_mirror_dir, "CMakeLists.txt")
      disk1 == WriteText(st.disk, cmaketxt_path, NestedCMakeLists(kw))
      st1 == [st EXCEPT !.disk = disk1]
  IN IF "CMAKE_FIND_PACKAGE_REDIRECTS_DIR" \notin DOMAIN vs
     THEN [st1 EXCEPT !.result = "KeyError"]
     ELSE IF UnsupportedOptions(kw)
     THEN [st1 EXCEPT !.result = "options_not_supported"]
     ELSE LET config_path == ConfigPath(vs["CMAKE_FIND_PACKAGE_REDIRECTS_DIR"],
                                        kw.cmake_name.val)
          IN [st1 EXCEPT
                !.disk = WriteText(disk1, config_path,
                                   RedirectConfig(kw.cmake_name.val,
                                                  local_mirror_dir)),
                !.result = "ok"]

\* What follows the loop over the files: nothing when it raised, else the
\* texts of the rule are added to the declare section and the files of the
\* nested project and of the redirect are written.
AfterLoopDeclaresFirst(st, loop, kw, vs, local_mirror_dir) ==
  LET declared == [st EXCEPT !.builder = DeclareMirror(@, kw.name, loop.out,
                                                       local_mirror_dir)]
  IN IF loop.raised THEN [declared EXCEPT !.result = "sha256_required"]
     ELSE FinishMirror(declared, kw, vs, local_mirror_dir)

AfterLoop(st, loop, kw, vs, local_mirror_dir) ==
  IF loop.raised THEN [st EXCEPT !.result = "sha256_required"]
  ELSE FinishMirror(
         [st EXCEPT !.builder = DeclareMirror(@, kw.name, loop.out,
                                              local_mirror_dir)],
         kw, vs, local_mirror_dir)

\* the early returns of _local_mirror_impl
SkipsRuleNameOnly(kw) == ~kw.cmake_name.some

SkipsRule(kw) == FalsySeq(kw.cmake_name) \/ ~kw.bazel_to_cmake.some

\* files = kwargs.get("files"); if not files: return
StopsOnlyWhenFilesAbsent(kw) == ~kw.files.some

StopsAfterBookkeeping(kw) == FalsySeq(kw.files)

\* _local_mirror_impl(_context, **kwargs) on the state
\* st = [deps, analyzed, builder, disk, result], for the Repository `repo`
\* being evaluated and the Workspace's cmake_vars `vs`.  result is
\*   "skipped"               the return for a missing cmake_name / bazel_to_cmake
\*   "no_files"              the return for missing or empty files
\*   "sha256_required"       ValueError: local_mirror requires SHA256 ...
\*   "KeyError"              cmake_vars has no CMAKE_FIND_PACKAGE_REDIRECTS_DIR
\*   "options_not_supported" ValueError: CMake options not supported ...
\*   "ok"                    the function ran to its end
LocalMirrorImpl(st, kw, repo, vs) ==
  IF SkipsRule(kw) THEN [st EXCEPT !.result = "skipped"]
  ELSE
    LET cmake_name == kw.cmake_name.val
        langs == IF kw.cmake_languages.some THEN kw.cmake_languages.val ELSE <<>>
        st1 == [st EXCEPT
                  !.deps = DictSet(@, kw.name, cmake_name),
                  !.analyzed = update_target_mapping(@, kw),
                  !.builder = EmitLanguages(@, langs)]
    IN IF StopsAfterBookkeeping(kw) THEN [st1 EXCEPT !.result = "no_files"]
       ELSE
         LET local_mirror_dir == LocalMirrorDir(repo, cmake_name)
             loop == MirrorFiles([disk |-> MakeDirs(st1.disk, local_mirror_dir),
                                  out |-> <<>>, raised |-> FALSE],
                                 local_mirror_dir, kw, kw.files.val)
             st2 == [st1 EXCEPT !.disk = loop.disk]
         IN AfterLoop(st2, loop, kw, vs, local_mirror_dir)

\* How many local_mirror declarations one pass evaluates.
MaxRules == 2

\* bazel_local_mirror(**kwargs), evaluated for the top-level Repository
local_mirror(kw) ==
  /\ lowered < MaxRules
  /\ lowered' = lowered + 1
  /\ \E st \in { LocalMirrorImpl(
                   [deps |-> bazel_to_cmake_deps, analyzed |-> analyzed_targets,
                    builder |-> [texts |-> declare_section, uniq |-> unique_texts],
                    disk |-> disk, result |-> "running"],
                   kw, repositories[repos[""]], cmake_vars) } :
        /\ bazel_to_cmake_deps' = st.deps
        /\ analyzed_targets' = st.analyzed
        /\ declare_section' = st.builder.texts
        /\ unique_texts' = st.builder.uniq
        /\ disk' = st.disk
        /\ call' = [op |-> "local_mirror", kwargs |-> kw, result |-> st.result]
  /\ UNCHANGED <<cmake_vars, repos, repo_cmake_packages, host_platform_name,
                 values, copts, cxxopts, ignored_libraries, repositories>>

----------------------------------------------------------------------------
(* The local_mirror declarations the model evaluates *)

\* the file attributes of a declaration
FileAttrs(files, file_content, file_url, file_sha256) ==
  [files |-> files, file_content |-> file_content, file_url |-> file_url,
   file_sha256 |-> file_sha256]

U1 == "http://x/1"
U2 == "http://y/2"

FilesAbsent == FileAttrs(None, None, None, None)
FilesEmpty == FileAttrs(Some(<<>>), None, Some("b.bin" :> <<U1>>), None)
FilesLiteral == FileAttrs(Some(<<"a.txt">>), Some("a.txt" :> "hello"), None, None)
FilesLiteralEmpty ==
  FileAttrs(Some(<<"a.txt">>), Some("a.txt" :> ""), Some("a.txt" :> <<U1>>), None)
FilesDownload ==
  FileAttrs(Some(<<"b.bin">>), None, Some("b.bin" :> <<U1, U2>>),
            Some("b.bin" :> "d1"))
FilesNoDigest == FileAttrs(Some(<<"b.bin">>), None, Some("b.bin" :> <<U1>>), None)
FilesEmptyDigest ==
  FileAttrs(Some(<<"b.bin">>), None, Some("b.bin" :> <<U1>>), Some("b.bin" :> ""))
FilesLiteralThenNoDigest ==
  FileAttrs(Some(<<"a.txt", "b.bin">>), Some("a.txt" :> "hello"),
            Some("b.bin" :> <<U1>>), Some("a.txt" :> "d1"))
FilesNoDigestThenLiteral ==
  FileAttrs(Some(<<"b.bin", "a.txt">>), Some("a.txt" :> "hello"),
            Some("b.bin" :> <<U1>>), None)
FilesSkipped ==
  FileAttrs(Some(<<"c.bin", "b.bin", "d.bin">>), Some(EmptyDict),
            Some(("b.bin" :> <<U2>>) @@ ("d.bin" :> <<>>)),
            Some(("b.bin" :> "d1") @@ ("d.bin" :> "d2")))
FilesTwoDownloads ==
  FileAttrs(Some(<<"c.bin", "b.bin">>), None,
            Some(("b.bin" :> <<U1>>) @@ ("c.bin" :> <<U2, U1>>)),
            Some(("b.bin" :> "d1") @@ ("c.bin" :> "d2")))
FilesDownloadThenNoDigest ==
  FileAttrs(Some(<<"b.bin", "c.bin">>), None,
            Some(("b.bin" :> <<U1>>) @@ ("c.bin" :> <<U2>>)),
            Some("b.bin" :> "d1"))
FilesNestedProject ==
  FileAttrs(Some(<<"CMakeLists.txt">>), Some("CMakeLists.txt" :> "hello"), None, None)

FilesListedTwice ==
  FileAttrs(Some(<<"b.bin", "b.bin">>), None, Some("b.bin" :> <<U2, U1>>),
            Some("b.bin" :> "d1"))

FileAttrsPool ==
  { FilesAbsent, FilesEmpty, FilesLiteral, FilesLiteralEmpty, FilesDownload,
    FilesNoDigest, FilesEmptyDigest, FilesLiteralThenNoDigest,
    FilesNoDigestThenLiteral, FilesSkipped, FilesTwoDownloads,
    FilesDownloadThenNoDigest, FilesNestedProject, FilesListedTwice }

\* the three redirect options local_mirror does not support
NoRedirectOptions == [extra |-> None, aliases |-> None, libraries |-> None]
RedirectOptionsPool ==
  { NoRedirectOptions,
    [NoRedirectOptions EXCEPT !.extra = Some("extra")],
    [NoRedirectOptions EXCEPT !.aliases = Some("aliases")],
    [NoRedirectOptions EXCEPT !.libraries = Some("libraries")] }

LanguagesPool == {None, Some(<<"C", "CXX", "C">>)}

\* the repositories declared, with the attributes naming their project
RuleIdentities ==
  { [name |-> "rb", cmake_name |-> Some(<<"H", "f">>), bazel_to_cmake |-> Some("{}"),
     cmakelists_prefix |-> Some("prefix"), cmakelists_suffix |-> None],
    [name |-> "rc", cmake_name |-> Some(<<"z", "L">>), bazel_to_cmake |-> Some("{}"),
     cmakelists_prefix |-> Some(""), cmakelists_suffix |-> Some("suffix")] }

\* declarations excluded from the pass
SkippedIdentities ==
  { [name |-> "rb", cmake_name |-> None, bazel_to_cmake |-> Some("{}"),
     cmakelists_prefix |-> None, cmakelists_suffix |-> None],
    [name |-> "rb", cmake_name |-> Some(<<>>), bazel_to_cmake |-> Some("{}"),
     cmakelists_prefix |-> None, cmakelists_suffix |-> None],
    [name |-> "rc", cmake_name |-> Some(<<"z", "L">>), bazel_to_cmake |-> None,
     cmakelists_prefix |-> None, cmakelists_suffix |-> None] }

Kwargs(id, langs, fa, ro) ==
  [name |-> id.name, cmake_name |-> id.cmake_name,
   bazel_to_cmake |-> id.bazel_to_cmake,
   cmake_languages |-> langs,
   files |-> fa.files, file_content |-> fa.file_content,
   file_url |-> fa.file_url, file_sha256 |-> fa.file_sha256,
   cmakelists_prefix |-> id.cmakelists_prefix,
   cmakelists_suffix |-> id.cmakelists_suffix,
   cmake_package_redirect_extra |-> ro.extra,
   cmake_package_aliases |-> ro.aliases,
   cmake_package_redirect_libraries |-> ro.libraries]

AliasesOption == [NoRedirectOptions EXCEPT !.aliases = Some("aliases")]

\* Every file attribute set with and without languages; the unsupported
\* options with the file attribute sets that reach their test, or stop before
\* it; and declarations that are excluded whatever else they say.
RuleDeclarations ==
  { Kwargs(id, langs, fa, NoRedirectOptions) :
      id \in RuleIdentities, langs \in LanguagesPool, fa \in FileAttrsPool }
  \cup
  { Kwargs(id, Some(<<"CXX">>), fa, ro) :
      id \in RuleIdentities,
      fa \in {FilesEmpty, FilesLiteral, FilesDownload, FilesNoDigest},
      ro \in RedirectOptionsPool \ {NoRedirectOptions} }
  \cup
  { Kwargs(id, Some(<<"C">>), FilesNoDigest, AliasesOption) :
      id \in SkippedIdentities }
  \cup
  { Kwargs(id, None, FilesLiteral, NoRedirectOptions) : id \in SkippedIdentities }
  \cup
  { Kwargs(id, None, FilesNestedProject, AliasesOption) : id \in RuleIdentities }

\* One translation pass of the top-level invocation, evaluating local_mirror
\* declarations one after the other with an empty script to start with.
InitMirror ==
  /\ \E vs \in CMakeVars \cup {EmptyDict} : TopLevelWorkspace(vs, "Linux")
  /\ BuilderInit
  /\ call = NoCall

NextMirror == \E kw \in RuleDeclarations : local_mirror(kw)

SpecMirror == InitMirror /\ [][NextMirror]_vars

----------------------------------------------------------------------------
(* Claims about the local_mirror lowering *)

\* the declare section as the sequence of the fragments of its texts
Fragments(section) == Concat(section)

LoweredRule(c) == c.op = "local_mirror"

\* the declaration names a project and takes part in the pass
Participates(kw) ==
  /\ kw.cmake_name.some /\ kw.cmake_name.val # <<>>
  /\ kw.bazel_to_cmake.some

ListsFiles(kw) == kw.files.some /\ kw.files.val # <<>>

HasContent(kw, f) ==
  kw.file_content.some /\ f \in DOMAIN kw.file_content.val

HasUrl(kw, f) ==
  /\ kw.file_url.some
  /\ f \in DOMAIN kw.file_url.val
  /\ kw.file_url.val[f] # <<>>

HasDigest(kw, f) ==
  /\ kw.file_sha256.some
  /\ f \in DOMAIN kw.file_sha256.val
  /\ kw.file_sha256.val[f] # ""

\* a file with a URL, no literal content and no digest
Undigested(kw, f) == HasUrl(kw, f) /\ ~HasContent(kw, f) /\ ~HasDigest(kw, f)

ListsUndigested(kw) ==
  ListsFiles(kw) /\ \E i \in DOMAIN kw.files.val : Undigested(kw, kw.files.val[i])

\* the path of a listed file of the declaration under its mirror directory
MirrorPath(kw, f) ==
  [area |-> "local_mirror", base |-> repositories[repos[""]].cmake_binary_dir,
   project |-> kw.cmake_name.val, file |-> f]

Aborted(c) == c.result \in {"sha256_required", "options_not_supported", "KeyError"}

\* the fragments a step appends to the declare section
NewFragments ==
  SubSeq(Fragments(declare_section'), Len(Fragments(declare_section)) + 1,
         Len(Fragments(declare_section')))

RequestedLanguages(kw) ==
  IF kw.cmake_languages.some THEN Range(kw.cmake_languages.val) ELSE {}

\* C4, as claimed: a participating rule that lists a file with a URL, no
\* literal content and no digest aborts on the missing digest, and at the
\* abort the declare section holds no text contributed by the rule.
C4_AbortBeforeAnyText ==
  [][(LoweredRule(call') /\ Participates(call'.kwargs)
      /\ ListsUndigested(call'.kwargs)) =>
       /\ call'.result = "sha256_required"
       /\ declare_section' = declare_section]_vars

\* C4, amended: such a rule aborts on the missing digest before its comment,
\* download and subdirectory directives are emitted; the only text it has
\* added to the declare section by then is the enable-toolchain directive of
\* each of its cmake_languages that was not enabled before.
C4_AbortBeforeMirrorText ==
  [][(LoweredRule(call') /\ Participates(call'.kwargs)
      /\ ListsUndigested(call'.kwargs)) =>
       /\ call'.result = "sha256_required"
       /\ StartsWith(declare_section', declare_section)
       /\ \A i \in 1..Len(NewFragments) :
            /\ NewFragments[i].k = "enable_language"
            /\ NewFragments[i].lang \in RequestedLanguages(call'.kwargs)
            /\ \A j \in 1..Len(Fragments(declare_section)) :
                 Fragments(declare_section)[j] # NewFragments[i]]_vars

\* C4 witness: a rule with languages that lists a literal file and then a
\* URL without digest has aborted; the section holds its two toolchain
\* directives only, and the literal file is on disk.
C4_Witness ==
  /\ LoweredRule(call) /\ call.result = "sha256_required"
  /\ call.kwargs.files = Some(<<"a.txt", "b.bin">>)
  /\ call.kwargs.cmake_languages = Some(<<"C", "CXX", "C">>)
  /\ declare_section = <<EnableLanguage("C"), EnableLanguage("CXX")>>
  /\ MirrorPath(call.kwargs, "a.txt") \in DOMAIN disk.files

\* C5: every download directive in the declare section is followed by an
\* expected-hash clause with a non-empty digest, and the clause a lowering
\* appends carries the digest its declaration configures for that file.
C5_DownloadsVerified ==
  /\ [](\A i \in 1..Len(Fragments(declare_section)) :
          Fragments(declare_section)[i].k = "file_download" =>
            /\ i < Len(Fragments(declare_section))
            /\ Fragments(declare_section)[i + 1].k = "expected_hash"
            /\ Fragments(declare_section)[i + 1].sha256 # "")
  /\ [][LoweredRule(call') =>
          \A i \in 1..Len(NewFragments) :
            NewFragments[i].k = "file_download" =>
              /\ i < Len(NewFragments)
              /\ \E f \in Range(call'.kwargs.files.val) :
                   /\ NewFragments[i].path = quote_string(MirrorPath(call'.kwargs, f))
                   /\ HasDigest(call'.kwargs, f)
                   /\ NewFragments[i + 1] =
                        [k |-> "expected_hash",
                         sha256 |-> call'.kwargs.file_sha256.val[f]]]_vars

\* C5 witness: after a rule whose download was emitted with its digest, a
\* rule that lists a digested URL and then an undigested one has aborted.
C5_Witness ==
  /\ LoweredRule(call) /\ call.result = "sha256_required"
  /\ call.kwargs.files = Some(<<"b.bin", "c.bin">>)
  /\ HasDigest(call.kwargs, "b.bin")
  /\ Cardinality({i \in 1..Len(Fragments(declare_section)) :
                    Fragments(declare_section)[i].k = "file_download"}) = 1
  /\ lowered = 2

\* the redirect descriptors on disk
RedirectFiles(d) == {p \in DOMAIN d.files : p.area = "redirects"}

AnyUnsupportedOption(kw) ==
  \/ kw.cmake_package_redirect_extra # None
  \/ kw.cmake_package_aliases # None
  \/ kw.cmake_package_redirect_libraries # None

\* C6: a participating rule with non-empty files and any of the three
\* unsupported redirect options aborts, and writes or overwrites no redirect
\* descriptor.
C6_UnsupportedOptionsAbort ==
  [][(LoweredRule(call') /\ Participates(call'.kwargs)
      /\ ListsFiles(call'.kwargs) /\ AnyUnsupportedOption(call'.kwargs)) =>
       /\ Aborted(call')
       /\ ~ListsUndigested(call'.kwargs)
            /\ "CMAKE_FIND_PACKAGE_REDIRECTS_DIR" \in DOMAIN cmake_vars
          => call'.result = "options_not_supported"
       /\ RedirectFiles(disk') = RedirectFiles(disk)
       /\ \A p \in RedirectFiles(disk) : disk'.files[p] = disk.files[p]]_vars

\* C6 witness: a rule has written the redirect descriptor of project Hf; a
\* second declaration of that project with cmake_package_redirect_libraries
\* has aborted on the option, the descriptor still being the first rule's.
C6_Witness ==
  /\ LoweredRule(call) /\ call.result = "options_not_supported"
  /\ call.kwargs.cmake_package_redirect_libraries.some
  /\ call.kwargs.files = Some(<<"b.bin">>)
  /\ lowered = 2
  /\ \E p \in RedirectFiles(disk) : p.project = Lower(call.kwargs.cmake_name.val)

\* how many enable-toolchain directives the declare section has for a language
DirectiveCount(lang) ==
  Cardinality({i \in 1..Len(Fragments(declare_section)) :
                 Fragments(declare_section)[i] =
                   [k |-> "enable_language", lang |-> lang]})

DeclaredLanguages ==
  {Fragments(declare_section)[i].lang :
     i \in {j \in 1..Len(Fragments(declare_section)) :
              Fragments(declare_section)[j].k = "enable_language"}}

\* C7: the declare section never holds more than one enable-toolchain
\* directive per language, and holds exactly one for every language of a
\* participating rule once the rule is lowered.
C7_OneDirectivePerLanguage ==
  /\ \A lang \in DeclaredLanguages : DirectiveCount(lang) = 1
  /\ (LoweredRule(call) /\ Participates(call.kwargs)) =>
       \A lang \in RequestedLanguages(call.kwargs) : DirectiveCount(lang) = 1

\* position of a text in the declare section, 0 when it is not there
Position(text) ==
  IF \E i \in 1..Len(declare_section) : declare_section[i] = text
  THEN CHOOSE i \in 1..Len(declare_section) : declare_section[i] = text
  ELSE 0

\* C7 witness: repository rb enabled C and was materialized, then repository
\* rc, which declares C too, was materialized.
C7_Witness ==
  /\ LoweredRule(call) /\ call.result = "ok" /\ call.kwargs.name = "rc"
  /\ "C" \in RequestedLanguages(call.kwargs)
  /\ Position(EnableLanguage("C")) = 1
  /\ Position(Loading("rb")) > 1
  /\ Position(Loading("rc")) > Position(Loading("rb"))

\* C9: a declaration whose cmake_name is missing or empty, or whose
\* bazel_to_cmake is missing, returns without error and changes nothing.
C9_SkippedRuleChangesNothing ==
  [][(LoweredRule(call')
      /\ (\/ call'.kwargs.cmake_name = None
          \/ call'.kwargs.cmake_name = Some(<<>>)
          \/ call'.kwargs.bazel_to_cmake = None)) =>
       /\ call'.result = "skipped"
       /\ UNCHANGED <<workspace_other, analyzed_targets, declare_section,
                      unique_texts, disk>>]_vars

\* C9 witness: after a materialized rule, a declaration without
\* bazel_to_cmake, with a language, an undigested URL and an unsupported
\* option, was skipped.
C9_Witness ==
  /\ LoweredRule(call) /\ call.result = "skipped"
  /\ call.kwargs.bazel_to_cmake = None
  /\ call.kwargs.cmake_name # None
  /\ ListsUndigested(call.kwargs)
  /\ AnyUnsupportedOption(call.kwargs)
  /\ call.kwargs.cmake_languages # None
  /\ call.kwargs.name \notin DOMAIN bazel_to_cmake_deps
  /\ declare_section # <<>>

\* no download directive for the file is appended by the step
NoDownloadFor(kw, f) ==
  \A i \in 1..Len(NewFragments) :
    NewFragments[i].k = "file_download" =>
      NewFragments[i].path # quote_string(MirrorPath(kw, f))

\* C10, as claimed: a participating rule writes the literal content of every
\* listed file that has one to the file's path, emits no download directive
\* for it, and does not fail for a URL without digest on such a file.
C10_EveryLiteralWritten ==
  [][(LoweredRule(call') /\ Participates(call'.kwargs)
      /\ ListsFiles(call'.kwargs)) =>
       /\ \A f \in Range(call'.kwargs.files.val) :
            HasContent(call'.kwargs, f) =>
              /\ DictGet(disk'.files, MirrorPath(call'.kwargs, f)) =
                   Some(Literal(call'.kwargs.file_content.val[f]))
              /\ NoDownloadFor(call'.kwargs, f)
       /\ ~ListsUndigested(call'.kwargs) =>
            call'.result # "sha256_required"]_vars

\* C10, amended: the same for every listed file with literal content that the
\* loop reaches, that is, when no file listed before it has a URL, no content
\* and no digest (the lowering aborts there); the content is what the path
\* holds after the lowering unless the file is the nested project's own
\* CMakeLists.txt, which the lowering writes afterwards.
C10_ReachedLiteralWritten ==
  [][(LoweredRule(call') /\ Participates(call'.kwargs)
      /\ ListsFiles(call'.kwargs)) =>
       /\ \A i \in DOMAIN call'.kwargs.files.val :
            LET f == call'.kwargs.files.val[i]
            IN HasContent(call'.kwargs, f) =>
                 /\ NoDownloadFor(call'.kwargs, f)
                 /\ (/\ \A j \in 1..(i - 1) :
                          ~Undigested(call'.kwargs, call'.kwargs.files.val[j])
                     /\ f # "CMakeLists.txt") =>
                      DictGet(disk'.files, MirrorPath(call'.kwargs, f)) =
                        Some(Literal(call'.kwargs.file_content.val[f]))
       /\ ~ListsUndigested(call'.kwargs) =>
            call'.result # "sha256_required"]_vars

\* C10 witness: a file with empty literal content and a URL without digest
\* was written as the empty file by a lowering that ran to its end, and the
\* declare section holds no download directive.
C10_Witness ==
  /\ LoweredRule(call) /\ call.result = "ok"
  /\ call.kwargs.files = Some(<<"a.txt">>)
  /\ call.kwargs.file_content.val["a.txt"] = ""
  /\ HasUrl(call.kwargs, "a.txt") /\ ~HasDigest(call.kwargs, "a.txt")
  /\ disk.files[MirrorPath(call.kwargs, "a.txt")] = Literal("")
  /\ \A i \in 1..Len(Fragments(declare_section)) :
       Fragments(declare_section)[i].k # "file_download"

\* a listed file that is downloaded: no literal content, a URL and a digest
UrlSourced(kw, f) == ~HasContent(kw, f) /\ HasUrl(kw, f) /\ HasDigest(kw, f)

\* where the step's new fragments hold a download directive for the file
DownloadsOf(kw, f) ==
  {i \in 1..Len(NewFragments) :
     /\ NewFragments[i].k = "file_download"
     /\ NewFragments[i].path = quote_string(MirrorPath(kw, f))}

\* how often the declaration lists the file
Listings(kw, f) == {i \in DOMAIN kw.files.val : kw.files.val[i] = f}

\* every download directive of the file names its first URL and is followed
\* by the expected-hash clause with its digest
FirstUrlWithDigest(kw, f) ==
  \A i \in DownloadsOf(kw, f) :
    /\ NewFragments[i].url = quote_string(kw.file_url.val[f][1])
    /\ i < Len(NewFragments)
    /\ NewFragments[i + 1] =
         [k |-> "expected_hash", sha256 |-> kw.file_sha256.val[f]]

\* the redirect descriptor of the rule is on disk after the step: named by the
\* lower-cased project name in the configured redirects directory, with the
\* three assignments
DescriptorWritten(kw) ==
  LET lower == Lower(kw.cmake_name.val)
      upper == Upper(kw.cmake_name.val)
      path == [area |-> "redirects",
               base |-> [root |-> FALSE,
                         parts |-> <<cmake_vars["CMAKE_FIND_PACKAGE_REDIRECTS_DIR"]>>],
               project |-> lower, file |-> "-config.cmake"]
  IN /\ path \in DOMAIN disk'.files
     /\ disk'.files[path] =
          << [k |-> "set_dir", var |-> lower, suffix |-> "_ROOT_DIR",
              dir |-> MirrorPath(kw, "")],
             [k |-> "set", var |-> lower, suffix |-> "_FOUND", value |-> "ON"],
             [k |-> "set", var |-> upper, suffix |-> "_FOUND", value |-> "ON"] >>

\* C11: a successful lowering with non-empty files emits exactly one download
\* directive for each listing of a file that has no literal content, a URL
\* and a digest (one directive per place the declaration lists the file at),
\* naming the first URL, the file's path and the digest, and writes the
\* redirect descriptor with its three assignments.
C11_OneDownloadPerListing ==
  [][(LoweredRule(call') /\ call'.result = "ok" /\ ListsFiles(call'.kwargs)) =>
       /\ \A f \in Range(call'.kwargs.files.val) :
            UrlSourced(call'.kwargs, f) =>
              /\ Cardinality(DownloadsOf(call'.kwargs, f)) =
                   Cardinality(Listings(call'.kwargs, f))
              /\ FirstUrlWithDigest(call'.kwargs, f)
       /\ DescriptorWritten(call'.kwargs)]_vars

\* C11 witness: project zL listed b.bin twice with two URLs and a digest; the
\* section holds two download directives, both for the first URL, and the
\* descriptor zl-config.cmake sets zl_ROOT_DIR, zl_FOUND and ZL_FOUND.
C11_Witness ==
  /\ LoweredRule(call) /\ call.result = "ok"
  /\ call.kwargs.files = Some(<<"b.bin", "b.bin">>)
  /\ call.kwargs.cmake_name = Some(<<"z", "L">>)
  /\ {i \in 1..Len(Fragments(declare_section)) :
        /\ Fragments(declare_section)[i].k = "file_download"
        /\ Fragments(declare_section)[i].url = quote_string(U2)} = {2, 4}
  /\ \E p \in RedirectFiles(disk) :
       /\ p.project = <<"z", "l">>
       /\ disk.files[p][2].var = <<"z", "l">>
       /\ disk.files[p][3].var = <<"Z", "L">>

\* the step appends nothing to the declare section but the enable-toolchain
\* directive of each requested language that had none, once each
OnlyNewToolchainDirectives(kw) ==
  /\ StartsWith(declare_section', declare_section)
  /\ \A i \in 1..Len(NewFragments) :
       /\ NewFragments[i].k = "enable_language"
       /\ NewFragments[i].lang \in RequestedLanguages(kw)
       /\ \A j \in 1..Len(Fragments(declare_section)) :
            Fragments(declare_section)[j] # NewFragments[i]
       /\ \A j \in 1..Len(NewFragments) :
            NewFragments[j] = NewFragments[i] => j = i
  /\ \A lang \in RequestedLanguages(kw) :
       \E i \in 1..Len(Fragments(declare_section')) :
         Fragments(declare_section')[i] = [k |-> "enable_language", lang |-> lang]

\* the step records the repo-to-project-name mapping and the mapping of the
\* rule's own target, and changes no other entry of the two maps
BookkeepingRecorded(kw) ==
  /\ DOMAIN bazel_to_cmake_deps' = DOMAIN bazel_to_cmake_deps \cup {kw.name}
  /\ bazel_to_cmake_deps'[kw.name] = kw.cmake_name.val
  /\ \A r \in DOMAIN bazel_to_cmake_deps \ {kw.name} :
       bazel_to_cmake_deps'[r] = bazel_to_cmake_deps[r]
  /\ DOMAIN analyzed_targets' =
       DOMAIN analyzed_targets \cup {TargetId(kw.name, "", kw.name)}
  /\ \A t \in DOMAIN analyzed_targets \ {TargetId(kw.name, "", kw.name)} :
       analyzed_targets'[t] = analyzed_targets[t]

\* C12: a participating rule whose files is absent or empty records the
\* repo-to-project-name mapping and its target mapping and emits its
\* de-duplicated toolchain directives; it creates no directory, writes no
\* file, appends no other text and raises no error.
C12_NoFilesBookkeepingOnly ==
  [][(LoweredRule(call') /\ Participates(call'.kwargs)
      /\ ~ListsFiles(call'.kwargs)) =>
       /\ call'.result = "no_files"
       /\ BookkeepingRecorded(call'.kwargs)
       /\ OnlyNewToolchainDirectives(call'.kwargs)
       /\ disk' = disk]_vars

\* C12 witness: on an empty script and filesystem, a rule with an empty files
\* list, a URL and languages C and CXX has returned; the section holds the two
\* toolchain directives, the maps hold the rule, and nothing is on disk.
C12_Witness ==
  /\ LoweredRule(call) /\ call.result = "no_files"
  /\ call.kwargs.files = Some(<<>>)
  /\ call.kwargs.file_url # None
  /\ declare_section = <<EnableLanguage("C"), EnableLanguage("CXX")>>
  /\ bazel_to_cmake_deps = (call.kwargs.name :> call.kwargs.cmake_name.val)
  /\ TargetId(call.kwargs.name, "", call.kwargs.name) \in DOMAIN analyzed_targets
  /\ disk = [files |-> EmptyDict, dirs |-> {}]

\* the download directive of a listed file with its expected-hash clause
DownloadDirective(kw, f) ==
  << [k |-> "file_download", url |-> quote_string(kw.file_url.val[f][1]),
      path |-> quote_string(MirrorPath(kw, f))],
     [k |-> "expected_hash", sha256 |-> kw.file_sha256.val[f]] >>

\* the download directives of the declaration, in the declared order of files
DownloadsInOrder(kw) ==
  Concat([i \in DOMAIN kw.files.val |->
            IF UrlSourced(kw, kw.files.val[i])
            THEN DownloadDirective(kw, kw.files.val[i]) ELSE <<>>])

\* C14: a participating rule with non-empty files and no missing digest
\* appends to the declare section its toolchain directives, then the comment
\* naming the repository, then the download directives in the declared order
\* of files (none for literal or skipped files), then the add_subdirectory
\* directive of the mirror directory with EXCLUDE_FROM_ALL; what the section
\* held before stays as its prefix.
C14_DeclareOrder ==
  [][(LoweredRule(call') /\ Participates(call'.kwargs)
      /\ ListsFiles(call'.kwargs) /\ ~ListsUndigested(call'.kwargs)) =>
       /\ StartsWith(declare_section', declare_section)
       /\ \E c \in 1..Len(NewFragments) :
            /\ NewFragments[c] = [k |-> "loading", name |-> call'.kwargs.name]
            /\ \A i \in 1..(c - 1) :
                 /\ NewFragments[i].k = "enable_language"
                 /\ NewFragments[i].lang \in RequestedLanguages(call'.kwargs)
            /\ SubSeq(NewFragments, c + 1, Len(NewFragments)) =
                 DownloadsInOrder(call'.kwargs)
                 \o << [k |-> "add_subdirectory",
                        dir |-> quote_string(MirrorPath(call'.kwargs, "")),
                        exclude_from_all |-> TRUE] >>]_vars

\* C14 witness: after repository rb was materialized, repository rc with
\* languages, listing c.bin and then b.bin with URLs and digests, was
\* materialized: its section text is two toolchain directives, the comment,
\* the download of c.bin, the download of b.bin and the subdirectory.
C14_Witness ==
  /\ LoweredRule(call) /\ call.result = "ok" /\ call.kwargs.name = "rc"
  /\ call.kwargs.files = Some(<<"c.bin", "b.bin">>)
  /\ lowered = 2
  /\ Position(Loading("rb")) = 1
  /\ LET fr == Fragments(declare_section)
         n == Len(fr)
     IN /\ n >= 9
        /\ fr[n - 7].k = "enable_language" /\ fr[n - 6].k = "enable_language"
        /\ fr[n - 5] = [k |-> "loading", name |-> "rc"]
        /\ fr[n - 4].k = "file_download"
        /\ fr[n - 4].path = quote_string(MirrorPath(call.kwargs, "c.bin"))
        /\ fr[n - 2].k = "file_download"
        /\ fr[n - 2].path = quote_string(MirrorPath(call.kwargs, "b.bin"))
        /\ fr[n].k = "add_subdirectory"

\* the literal files the loop has written when the lowering ends with the
\* given result: all of them, or those listed before the first file with a
\* URL, no content and no digest
WrittenLiterals(kw, result) ==
  {kw.files.val[i] : i \in
     {j \in DOMAIN kw.files.val :
        /\ HasContent(kw, kw.files.val[j])
        /\ result = "sha256_required" =>
             \A h \in 1..(j - 1) : ~Undigested(kw, kw.files.val[h])}}

\* C17: an aborted lowering rolls nothing back.  On an unsupported redirect
\* option the rule's comment, downloads and subdirectory directive are in the
\* declare section and the nested project file is written; in every abort the
\* repo-to-project-name mapping, the rule's target mapping and the literal
\* files written before the abort are there (a literal file at the nested
\* project file's path holds the nested project once that is written); and
\* no abort writes or changes a redirect descriptor.
C17_AbortKeepsArtifacts ==
  [][(LoweredRule(call') /\ Aborted(call')) =>
       LET kw == call'.kwargs
           nested == MirrorPath(kw, "CMakeLists.txt")
       IN /\ call'.result = "options_not_supported" =>
               /\ \E c \in 1..Len(NewFragments) :
                    /\ NewFragments[c] = [k |-> "loading", name |-> kw.name]
                    /\ SubSeq(NewFragments, c + 1, Len(NewFragments)) =
                         DownloadsInOrder(kw)
                         \o << [k |-> "add_subdirectory",
                                dir |-> quote_string(MirrorPath(kw, "")),
                                exclude_from_all |-> TRUE] >>
               /\ nested \in DOMAIN disk'.files
               /\ disk'.files[nested][1] =
                    [k |-> "message_indent", project |-> kw.cmake_name.val]
          /\ DictGet(bazel_to_cmake_deps', kw.name) = Some(kw.cmake_name.val)
          /\ TargetId(kw.name, "", kw.name) \in DOMAIN analyzed_targets'
          /\ StartsWith(declare_section', declare_section)
          /\ DOMAIN disk.files \subseteq DOMAIN disk'.files
          /\ MirrorPath(kw, "") \in disk'.dirs
          /\ \A f \in WrittenLiterals(kw, call'.result) :
               /\ MirrorPath(kw, f) \in DOMAIN disk'.files
               /\ (f # "CMakeLists.txt" \/ call'.result = "sha256_required") =>
                    disk'.files[MirrorPath(kw, f)] =
                      Literal(kw.file_content.val[f])
          /\ RedirectFiles(disk') = RedirectFiles(disk)
          /\ \A p \in RedirectFiles(disk) : disk'.files[p] = disk.files[p]]_vars

\* C17 witness: on an empty script and filesystem, a rule with a literal file
\* and cmake_package_aliases has aborted on the option: its comment and
\* subdirectory directive, its literal file, its nested project file and its
\* mappings are there, and no redirect descriptor is.
C17_Witness ==
  /\ LoweredRule(call) /\ call.result = "options_not_supported"
  /\ call.kwargs.cmake_package_aliases.some
  /\ call.kwargs.files = Some(<<"a.txt">>)
  /\ lowered = 1
  /\ Position(Loading(call.kwargs.name)) > 0
  /\ Position(AddSubdirectory(MirrorPath(call.kwargs, ""))) > 0
  /\ disk.files[MirrorPath(call.kwargs, "a.txt")] = Literal("hello")
  /\ MirrorPath(call.kwargs, "CMakeLists.txt") \in DOMAIN disk.files
  /\ call.kwargs.name \in DOMAIN bazel_to_cmake_deps
  /\ RedirectFiles(disk) = {}

====
